---- MODULE Spec2Model ----
(***************************************************************************)
(* Model of src/GraphGenerator.js: the import path resolver                *)
(* (resolveImportPath), the per-file classifier (parseFile and its four    *)
(* visitors) and the pipeline driver with its two assembly passes (main).  *)
(*                                                                         *)
(* Paths are sequences of path segments counted from the filesystem root;  *)
(* a specifier is the sequence of segments obtained by splitting it on     *)
(* "/", so a leading "" segment is a leading slash.  File ids, state node  *)
(* ids and candidate file names are real strings built with \o.            *)
(***************************************************************************)
EXTENDS Integers, Sequences, FiniteSets, TLC

VARIABLES
  fs,        \* the filesystem: the set of paths of the regular files
  code,      \* file path -> its syntax tree (pre-order node list) or Unparseable
  pc,        \* position of the running program
  files,     \* main: the file list returned by glob
  i,         \* main: index of the first loop (pass 1) into files
  j,         \* main: index of the second loop (pass 2) into graph.nodes
  graph,     \* main: [nodes, edges]
  fileMap,   \* main: id -> metadata
  written,   \* the graph handed to writeFileSync, or NotWritten
  cur,       \* classifier run: the file being parsed
  pos,       \* classifier run: index of the next node traverse visits
  metadata,  \* classifier run: the metadata record under construction
  call       \* resolver run: the last call [fromFile, importPath, result]

vars == <<fs, code, pc, files, i, j, graph, fileMap, written, cur, pos, metadata, call>>

(***************************************************************************)
(* Bounds                                                                  *)
(***************************************************************************)
MaxSpecLen == 2   \* segments in an import specifier
MaxStmts == 2     \* visited nodes in a classified syntax tree
MaxPipeStmts == 2 \* visited nodes per file in a pipeline run

\* A missing node (null) has this type; a missing name (undefined) is ""
Null == "null"
Undefined == ""

\* resolveImportPath's null; no candidate path is empty
NoPath == <<>>

(***************************************************************************)
(* Paths                                                                   *)
(***************************************************************************)
projectRoot == <<"proj">>

fileExtensions == <<".js", ".jsx", ".ts", ".tsx">>

\* Segments whose first character is "."
DotSegs == {".", "..", ".hid"}

Front(s) == SubSeq(s, 1, Len(s) - 1)
Last(s) == s[Len(s)]

\* path.dirname of an absolute path
Dirname(p) == IF p = <<>> THEN <<>> ELSE Front(p)

\* path.resolve's normalisation of the segments left to right: "" and "."
\* are skipped, ".." drops the last segment kept (and stays at the root).
RECURSIVE Normalize(_, _)
Normalize(acc, segs) ==
  IF segs = <<>> THEN acc
  ELSE LET s == Head(segs) IN
       IF s = "" \/ s = "." THEN Normalize(acc, Tail(segs))
       ELSE IF s = ".." THEN Normalize(Dirname(acc), Tail(segs))
       ELSE Normalize(Append(acc, s), Tail(segs))

IsAbsoluteSpec(importPath) == importPath # <<>> /\ Head(importPath) = ""

\* path.resolve(baseDir, importPath): an absolute second argument replaces
\* the base.
PathResolve(baseDir, importPath) ==
  IF IsAbsoluteSpec(importPath) THEN Normalize(<<>>, importPath)
  ELSE Normalize(baseDir, importPath)

\* `${fullPath}.ext`: the extension is glued to the last segment
WithExt(fullPath, ext) ==
  IF fullPath = <<>> THEN <<ext>>
  ELSE Append(Front(fullPath), Last(fullPath) \o ext)

\* path.join(fullPath, 'index.ext')
IndexIn(fullPath, ext) == Append(fullPath, "index" \o ext)

\* String.prototype.startsWith('.') on the specifier: the empty specifier
\* and a leading slash do not start with "."
StartsWithDot(importPath) == importPath # <<>> /\ Head(importPath) \in DotSegs

\* fs.existsSync: true of regular files and of directories
IsDirectory(p) == \E f \in fs : Len(f) > Len(p) /\ SubSeq(f, 1, Len(p)) = p
existsSync(p) == p \in fs \/ IsDirectory(p)

BaseDir(fromFile, importPath) ==
  IF StartsWithDot(importPath) THEN Dirname(fromFile) ELSE projectRoot

PossibilitiesIndexFirst(fullPath) ==
  [k \in 1..4 |-> IndexIn(fullPath, fileExtensions[k])]
    \o [k \in 1..4 |-> WithExt(fullPath, fileExtensions[k])]

Possibilities(fullPath) ==
  [k \in 1..4 |-> WithExt(fullPath, fileExtensions[k])]
    \o [k \in 1..4 |-> IndexIn(fullPath, fileExtensions[k])]

\* for (const p of possibilities) if (fs.existsSync(p)) return p; return null
RECURSIVE FirstExisting(_)
FirstExisting(ps) ==
  IF ps = <<>> THEN NoPath
  ELSE IF existsSync(Head(ps)) THEN Head(ps)
  ELSE FirstExisting(Tail(ps))

resolveImportPath(fromFile, importPath) ==
  FirstExisting(Possibilities(PathResolve(BaseDir(fromFile, importPath), importPath)))

\* Length of the longest common prefix of two paths
RECURSIVE CommonLen(_, _)
CommonLen(p, q) ==
  IF p = <<>> \/ q = <<>> \/ Head(p) # Head(q) THEN 0
  ELSE 1 + CommonLen(Tail(p), Tail(q))

RECURSIVE JoinSlash(_)
JoinSlash(segs) ==
  IF segs = <<>> THEN ""
  ELSE IF Len(segs) = 1 THEN Head(segs)
  ELSE Head(segs) \o "/" \o JoinSlash(Tail(segs))

\* path.relative(projectRoot, p).replace(/\\/g, '/')
RelativeToRoot(p) ==
  LET c == CommonLen(projectRoot, p) IN
  JoinSlash([k \in 1..(Len(projectRoot) - c) |-> ".."] \o SubSeq(p, c + 1, Len(p)))

(***************************************************************************)
(* Syntax trees.  A file's tree is the list of its declarations and        *)
(* expression statements; traverse visits them in pre-order, so the call   *)
(* that initialises a variable is visited right after its declarator.      *)
(***************************************************************************)
Ident(n) == [type |-> "Identifier", name |-> n]
Absent == [type |-> Null, name |-> Undefined]

\* Identifier names of the analysed programs
UpperNames == {"Header"}                                       \* /^[A-Z]/
UseNames == {"useState", "useEffect", "useContext", "useMemo"} \* startsWith('use')
StartsUpper(n) == n \in UpperNames
StartsWithUse(n) == n \in UseNames

ImportNode(src, specs) ==
  [type |-> "ImportDeclaration", source |-> src, specifiers |-> specs]
FunctionNode(id) == [type |-> "FunctionDeclaration", id |-> id]
DeclaratorNode(id, init) == [type |-> "VariableDeclarator", id |-> id, init |-> init]
CallNode(callee) == [type |-> "CallExpression", callee |-> callee]
ArrayPattern(elems) == [type |-> "ArrayPattern", name |-> Undefined, elements |-> elems]
Expr(t) == [type |-> t]
MemberCallee == [type |-> "MemberExpression", name |-> Undefined]
ImportSpecifier(n) == [type |-> "ImportSpecifier", imported |-> n]
DefaultSpecifier == [type |-> "ImportDefaultSpecifier", imported |-> Undefined]

\* The nodes traverse visits, in order
RECURSIVE PreOrder(_)
PreOrder(body) ==
  IF body = <<>> THEN <<>>
  ELSE LET n == Head(body) IN
       IF n.type = "VariableDeclarator" /\ n.init.type = "CallExpression"
       THEN <<n, n.init>> \o PreOrder(Tail(body))
       ELSE <<n>> \o PreOrder(Tail(body))

(***************************************************************************)
(* parseFile                                                               *)
(***************************************************************************)
Includes(seq, x) == \E k \in 1..Len(seq) : seq[k] = x

PushUnlessIncluded(seq, x) == IF Includes(seq, x) THEN seq ELSE Append(seq, x)

isReactComponent(node) ==
  /\ node.type \in {"FunctionDeclaration", "FunctionExpression"}
  /\ node.id.type # Null
  /\ StartsUpper(node.id.name)

InitialMetadata(filePath) ==
  [id |-> RelativeToRoot(filePath),
   components |-> <<>>,
   usesState |-> FALSE,
   usesEffect |-> FALSE,
   usesHooks |-> <<>>,
   usesContext |-> FALSE,
   declaresRoutes |-> FALSE,
   stateVariables |-> <<>>,
   imports |-> <<>>,
   nodeType |-> "file"]

ImportsRoute(node) ==
  /\ node.source = <<"react-router-dom">>
  /\ \E k \in 1..Len(node.specifiers) :
       /\ node.specifiers[k].type = "ImportSpecifier"
       /\ node.specifiers[k].imported \in {"Route", "Routes"}

ImportDeclaration(m, filePath, node) ==
  LET importFile == resolveImportPath(filePath, node.source)
      m1 == IF importFile # NoPath
            THEN [m EXCEPT !.imports = Append(@, RelativeToRoot(importFile))]
            ELSE m
  IN IF ImportsRoute(node) THEN [m1 EXCEPT !.declaresRoutes = TRUE] ELSE m1

FunctionDeclaration(m, node) ==
  IF isReactComponent(node)
  THEN [m EXCEPT !.components = Append(@, node.id.name)]
  ELSE m

IsComponentBinding(node) ==
  /\ node.init.type = "ArrowFunctionExpression"
  /\ node.id.name # Undefined
  /\ StartsUpper(node.id.name)

IsStateBindingTwoOrMore(node) ==
  /\ node.init.type = "CallExpression"
  /\ node.init.callee.name = "useState"
  /\ node.id.type = "ArrayPattern"
  /\ Len(node.id.elements) > 1
  /\ node.id.elements[1].type = "Identifier"

IsStateBinding(node) ==
  /\ node.init.type = "CallExpression"
  /\ node.init.callee.name = "useState"
  /\ node.id.type = "ArrayPattern"
  /\ Len(node.id.elements) > 0
  /\ node.id.elements[1].type # Null
  /\ node.id.elements[1].type = "Identifier"

VariableDeclarator(m, node) ==
  LET m1 == IF IsComponentBinding(node)
            THEN [m EXCEPT !.components = Append(@, node.id.name)]
            ELSE m
  IN IF IsStateBinding(node)
     THEN [m1 EXCEPT !.stateVariables = Append(@, node.id.elements[1].name),
                     !.usesHooks = PushUnlessIncluded(@, "useState"),
                     !.usesState = TRUE]
     ELSE m1

CallExpression(m, node) ==
  LET callee == node.callee.name
      m1 == IF callee = "useState"
            THEN [m EXCEPT !.usesState = TRUE, !.usesHooks = Append(@, "useState")]
            ELSE m
      m2 == IF callee = "useEffect"
            THEN [m1 EXCEPT !.usesEffect = TRUE, !.usesHooks = Append(@, "useEffect")]
            ELSE m1
      m3 == IF callee = "useContext"
            THEN [m2 EXCEPT !.usesContext = TRUE,
                            !.usesHooks = PushUnlessIncluded(@, "useContext")]
            ELSE m2
  IN IF callee # Undefined /\ StartsWithUse(callee) /\ ~Includes(m3.usesHooks, callee)
     THEN [m3 EXCEPT !.usesHooks = Append(@, callee)]
     ELSE m3

\* One visitor call of traverse
Visit(m, filePath, node) ==
  CASE node.type = "ImportDeclaration" -> ImportDeclaration(m, filePath, node)
    [] node.type = "FunctionDeclaration" -> FunctionDeclaration(m, node)
    [] node.type = "VariableDeclarator" -> VariableDeclarator(m, node)
    [] node.type = "CallExpression" -> CallExpression(m, node)
    [] OTHER -> m

RECURSIVE Traverse(_, _, _)
Traverse(m, filePath, nodes) ==
  IF nodes = <<>> THEN m
  ELSE Traverse(Visit(m, filePath, Head(nodes)), filePath, Tail(nodes))

\* parseFile of a file that is read and parsed without an exception
parseFile(filePath) ==
  Traverse(InitialMetadata(filePath), filePath, PreOrder(code[filePath].body))

(***************************************************************************)
(* Idle values of the variables a run does not use                         *)
(***************************************************************************)
BoundedSeq(S, n) == UNION {[1..k -> S] : k \in 0..n}

EmptyGraph == [nodes |-> <<>>, edges |-> <<>>]
EmptyMap == [id \in {} |-> InitialMetadata(<<>>)]
NoCall == [fromFile |-> <<>>, importPath |-> <<>>, result |-> NoPath, done |-> FALSE]
NoCode == [f \in {} |-> [ok |-> TRUE, body |-> <<>>]]

MainIdle ==
  /\ files = <<>> /\ i = 0 /\ j = 0
  /\ graph = EmptyGraph /\ fileMap = EmptyMap /\ written = <<>>

ClassifierIdle == cur = <<>> /\ pos = 0 /\ metadata = InitialMetadata(<<>>)

(***************************************************************************)
(* Resolver runs: resolveImportPath called on every importer, specifier    *)
(* and filesystem of the bounded universe.                                 *)
(***************************************************************************)
Importers == {<<"proj", "a.ts">>, <<"proj", "sub", "c.ts">>}

ResolveOptional ==
  {WithExt(<<"proj", "b">>, fileExtensions[k]) : k \in 1..4}
    \cup {IndexIn(<<"proj", "b">>, fileExtensions[k]) : k \in 1..4}
    \cup {<<"proj", "sub", "b.ts">>, <<"b.ts">>}

SpecSegs == {"", ".", "..", ".hid", "b", "sub"}
Specifiers == BoundedSeq(SpecSegs, MaxSpecLen)

InitResolve ==
  /\ \E S \in SUBSET ResolveOptional : fs = Importers \cup S
  /\ code = NoCode
  /\ pc = "resolver"
  /\ call = NoCall
  /\ MainIdle /\ ClassifierIdle

ResolveCall ==
  /\ pc = "resolver"
  /\ \E fromFile \in Importers, importPath \in Specifiers :
       call' = [fromFile |-> fromFile, importPath |-> importPath,
                result |-> resolveImportPath(fromFile, importPath), done |-> TRUE]
  /\ pc' = "resolved"
  /\ UNCHANGED <<fs, code, files, i, j, graph, fileMap, written, cur, pos, metadata>>

NextResolve == ResolveCall

SpecResolve == InitResolve /\ [][NextResolve]_vars

(***************************************************************************)
(* Classifier runs: parseFile on one file, one visitor call per step.      *)
(***************************************************************************)
ClassifyFs == {<<"proj", "a.ts">>, <<"proj", "b.ts">>}
ClassifyFile == <<"proj", "a.ts">>

ImportNodes ==
  {ImportNode(<<".", "b">>, <<DefaultSpecifier>>),
   ImportNode(<<".", "missing">>, <<DefaultSpecifier>>),
   ImportNode(<<"react-router-dom">>, <<ImportSpecifier("Route")>>),
   ImportNode(<<"react-router-dom">>, <<ImportSpecifier("Link")>>)}

FunctionNodes == {FunctionNode(Ident("Header")), FunctionNode(Ident("helper")), FunctionNode(Absent)}

Callees == {Ident(n) : n \in UseNames \cup {"helper"}} \cup {MemberCallee}
CallNodes == {CallNode(c) : c \in Callees}

NameBindings ==
  {DeclaratorNode(Ident(n), e) :
     n \in {"Header", "helper"},
     e \in {Absent, Expr("ArrowFunctionExpression"), Expr("FunctionExpression"),
            CallNode(Ident("useState"))}}

Patterns ==
  {ArrayPattern(<<>>),
   ArrayPattern(<<Ident("count")>>),
   ArrayPattern(<<Ident("count"), Ident("setCount")>>),
   ArrayPattern(<<Ident("open"), Ident("setOpen")>>),
   ArrayPattern(<<Absent, Ident("setCount")>>),
   ArrayPattern(<<[type |-> "ObjectPattern", name |-> Undefined], Ident("setCount")>>)}

PatternBindings ==
  {DeclaratorNode(p, e) :
     p \in Patterns,
     e \in {Expr("ArrowFunctionExpression"), CallNode(Ident("useState")),
            CallNode(Ident("useMemo")), CallNode(MemberCallee)}}

ClassifyNodes == ImportNodes \cup FunctionNodes \cup CallNodes \cup NameBindings \cup PatternBindings

Sources(nodes, n) ==
  {[ok |-> TRUE, body |-> b] : b \in BoundedSeq(nodes, n)} \cup {[ok |-> FALSE, body |-> <<>>]}

InitClassify ==
  /\ fs = ClassifyFs
  /\ \E src \in Sources(ClassifyNodes, MaxStmts) :
       code = [f \in ClassifyFs |-> IF f = ClassifyFile THEN src ELSE [ok |-> TRUE, body |-> <<>>]]
  /\ pc = "parse"
  /\ cur = ClassifyFile /\ pos = 0 /\ metadata = InitialMetadata(<<>>)
  /\ call = NoCall
  /\ MainIdle

\* readFileSync and parser.parse succeed; the metadata record is created
ParseOk ==
  /\ pc = "parse" /\ code[cur].ok
  /\ pc' = "traverse" /\ pos' = 1 /\ metadata' = InitialMetadata(cur)
  /\ UNCHANGED <<fs, code, files, i, j, graph, fileMap, written, cur, call>>

\* readFileSync or parser.parse throws
ParseThrows ==
  /\ pc = "parse" /\ ~code[cur].ok
  /\ pc' = "thrown"
  /\ UNCHANGED <<fs, code, files, i, j, graph, fileMap, written, cur, pos, metadata, call>>

Visiting(t) ==
  /\ pc = "traverse"
  /\ pos <= Len(PreOrder(code[cur].body))
  /\ PreOrder(code[cur].body)[pos].type = t

Node == PreOrder(code[cur].body)[pos]

EnterImportDeclaration ==
  /\ Visiting("ImportDeclaration")
  /\ metadata' = ImportDeclaration(metadata, cur, Node)
  /\ pos' = pos + 1
  /\ UNCHANGED <<fs, code, pc, files, i, j, graph, fileMap, written, cur, call>>

EnterFunctionDeclaration ==
  /\ Visiting("FunctionDeclaration")
  /\ metadata' = FunctionDeclaration(metadata, Node)
  /\ pos' = pos + 1
  /\ UNCHANGED <<fs, code, pc, files, i, j, graph, fileMap, written, cur, call>>

EnterVariableDeclarator ==
  /\ Visiting("VariableDeclarator")
  /\ metadata' = VariableDeclarator(metadata, Node)
  /\ pos' = pos + 1
  /\ UNCHANGED <<fs, code, pc, files, i, j, graph, fileMap, written, cur, call>>

EnterCallExpression ==
  /\ Visiting("CallExpression")
  /\ metadata' = CallExpression(metadata, Node)
  /\ pos' = pos + 1
  /\ UNCHANGED <<fs, code, pc, files, i, j, graph, fileMap, written, cur, call>>

\* return metadata
ReturnMetadata ==
  /\ pc = "traverse" /\ pos > Len(PreOrder(code[cur].body))
  /\ pc' = "returned"
  /\ UNCHANGED <<fs, code, files, i, j, graph, fileMap, written, cur, pos, metadata, call>>

NextClassify ==
  \/ ParseOk
  \/ ParseThrows
  \/ EnterImportDeclaration
  \/ EnterFunctionDeclaration
  \/ EnterVariableDeclarator
  \/ EnterCallExpression
  \/ ReturnMetadata

SpecClassify == InitClassify /\ [][NextClassify]_vars


(***************************************************************************)
(* main: glob, pass 1 (classification, file and state nodes, state         *)
(* edges), pass 2 (import edges), serialization.                           *)
(***************************************************************************)
\* File name stems of the analysed trees
Stems == {"a", "b", "c", "x", "index"}

HasSourceExt(name) == \E st \in Stems, k \in 1..4 : name = st \o fileExtensions[k]

IsUnder(dir, p) == Len(p) > Len(dir) /\ SubSeq(p, 1, Len(dir)) = dir

\* glob(['**/*.{js,jsx,ts,tsx}'], { cwd: projectRoot, absolute: true })
Discovered(filesystem) ==
  {f \in filesystem : IsUnder(projectRoot, f) /\ HasSourceExt(Last(f))}

Perms(S) ==
  {s \in [1..Cardinality(S) -> S] : \A a, b \in 1..Cardinality(S) : a # b => s[a] # s[b]}

StateNodeId(m, stateVar) == m.id \o "::state::" \o stateVar

StateNodesDeduped(m) ==
  [k \in 1..Cardinality({m.stateVariables[n] : n \in 1..Len(m.stateVariables)}) |->
     LET v == m.stateVariables[k] IN
     [id |-> StateNodeId(m, v), label |-> v, parent |-> m.id, nodeType |-> "state"]]

StateNodesOf(m) ==
  [k \in 1..Len(m.stateVariables) |->
     LET v == m.stateVariables[k] IN
     [id |-> StateNodeId(m, v), label |-> v, parent |-> m.id, nodeType |-> "state"]]

StateEdgesOf(m) ==
  [k \in 1..Len(m.stateVariables) |->
     [source |-> m.id, target |-> StateNodeId(m, m.stateVariables[k]), type |-> "state"]]

\* Array.isArray(node.imports): file nodes have the field, state nodes do not
HasImports(node) == "imports" \in DOMAIN node

ImportEdge(node, target) == [source |-> node.id, target |-> target, type |-> "imports"]

RECURSIVE EdgesTo(_, _, _)
EdgesTo(node, targets, known) ==
  IF targets = <<>> THEN <<>>
  ELSE IF Head(targets) \in known
       THEN <<ImportEdge(node, Head(targets))>> \o EdgesTo(node, Tail(targets), known)
       ELSE EdgesTo(node, Tail(targets), known)

RECURSIVE EdgesToOnce(_, _, _)
EdgesToOnce(node, targets, known) ==
  IF targets = <<>> THEN <<>>
  ELSE IF Head(targets) \in known /\ ~Includes(Tail(targets), Head(targets))
       THEN <<ImportEdge(node, Head(targets))>> \o EdgesToOnce(node, Tail(targets), known)
       ELSE EdgesToOnce(node, Tail(targets), known)

ImportEdgesUnchecked(node, fm) ==
  IF HasImports(node)
  THEN [k \in 1..Len(node.imports) |-> ImportEdge(node, node.imports[k])]
  ELSE <<>>

ImportEdgesDeduped(node, fm) ==
  IF HasImports(node) THEN EdgesToOnce(node, node.imports, DOMAIN fm) ELSE <<>>

\* The body of the second loop for one node: if (fileMap[target]) push
ImportEdgesOf(node, fm) ==
  IF HasImports(node) THEN EdgesTo(node, node.imports, DOMAIN fm) ELSE <<>>

SeenSoFar(fm, nodes, k) == [id \in {nodes[n].id : n \in 1..k} \cap DOMAIN fm |-> fm[id]]

\* The map the second loop looks targets up in: the whole fileMap
LookupMap(fm, nodes, k) == fm

PipeOptional == {<<"proj", "b.ts">>, <<"x.ts">>}
PipeFixed == {<<"proj", "a.ts">>}

PipeNodes ==
  {ImportNode(<<".", "b">>, <<DefaultSpecifier>>),
   ImportNode(<<"..", "x">>, <<DefaultSpecifier>>),
   ImportNode(<<"a">>, <<DefaultSpecifier>>),
   DeclaratorNode(ArrayPattern(<<Ident("count"), Ident("setCount")>>), CallNode(Ident("useState"))),
   DeclaratorNode(ArrayPattern(<<Ident("open"), Ident("setOpen")>>), CallNode(Ident("useState")))}

Init ==
  /\ \E S \in SUBSET PipeOptional : fs = PipeFixed \cup S
  /\ code \in [Discovered(fs) -> Sources(PipeNodes, MaxPipeStmts)]
  /\ pc = "main"
  /\ MainIdle /\ ClassifierIdle
  /\ call = NoCall

Glob ==
  /\ pc = "main"
  /\ files' \in Perms(Discovered(fs))
  /\ i' = 1
  /\ pc' = "pass1"
  /\ UNCHANGED <<fs, code, j, graph, fileMap, written, cur, pos, metadata, call>>

\* One iteration of the first loop, parseFile returning
Pass1File ==
  /\ pc = "pass1" /\ i <= Len(files) /\ code[files[i]].ok
  /\ LET m == parseFile(files[i]) IN
       /\ fileMap' = [id \in DOMAIN fileMap \cup {m.id} |-> IF id = m.id THEN m ELSE fileMap[id]]
       /\ graph' = [nodes |-> graph.nodes \o <<m>> \o StateNodesOf(m),
                    edges |-> graph.edges \o StateEdgesOf(m)]
  /\ i' = i + 1
  /\ UNCHANGED <<fs, code, pc, files, j, written, cur, pos, metadata, call>>

\* parseFile throws in the first loop: nothing catches it inside main, the
\* promise rejects and main().catch(console.error) prints the error
Pass1Throws ==
  /\ pc = "pass1" /\ i <= Len(files) /\ ~code[files[i]].ok
  /\ pc' = "rejected"
  /\ UNCHANGED <<fs, code, files, i, j, graph, fileMap, written, cur, pos, metadata, call>>

Pass1Done ==
  /\ pc = "pass1" /\ i > Len(files)
  /\ pc' = "pass2" /\ j' = 1
  /\ UNCHANGED <<fs, code, files, i, graph, fileMap, written, cur, pos, metadata, call>>

\* One iteration of the second loop
Pass2Node ==
  /\ pc = "pass2" /\ j <= Len(graph.nodes)
  /\ graph' = [graph EXCEPT !.edges =
                 @ \o ImportEdgesOf(graph.nodes[j], LookupMap(fileMap, graph.nodes, j))]
  /\ j' = j + 1
  /\ UNCHANGED <<fs, code, pc, files, i, fileMap, written, cur, pos, metadata, call>>

\* fs.writeFileSync('fileDependencyGraph.json', ...) and generateVisualization(graph)
WriteGraph ==
  /\ pc = "pass2" /\ j > Len(graph.nodes)
  /\ written' = <<graph>>
  /\ pc' = "done"
  /\ UNCHANGED <<fs, code, files, i, j, graph, fileMap, cur, pos, metadata, call>>

Next ==
  \/ Glob
  \/ Pass1File
  \/ Pass1Throws
  \/ Pass1Done
  \/ Pass2Node
  \/ WriteGraph

Spec == Init /\ [][Next]_vars

(***************************************************************************)
(* Properties of the pipeline (specification Spec)                         *)
(***************************************************************************)
Indices(seq) == 1..Len(seq)
IdSet(g) == {g.nodes[n].id : n \in Indices(g.nodes)}
EdgesOfType(g, t) == {n \in Indices(g.edges) : g.edges[n].type = t}
FileIds == {RelativeToRoot(files[k]) : k \in Indices(files)}
Terminated == pc \in {"done", "rejected"}

\* The import statements of file f whose specifier resolves to analysed file g
ImportsOf(f, g) ==
  {n \in Indices(code[f].body) :
     /\ code[f].body[n].type = "ImportDeclaration"
     /\ resolveImportPath(f, code[f].body[n].source) = g}

\* C1: when a file of the discovered list fails to be read or parsed, the run
\* still ends with the graph handed to serialization, and every other
\* discovered file is a file node of that graph.
C1_FaultIsolation ==
  (Terminated /\ \E k \in Indices(files) : ~code[files[k]].ok) =>
    /\ written # <<>>
    /\ \A k \in Indices(files) :
         code[files[k]].ok =>
           \E n \in Indices(written[1].nodes) :
             /\ written[1].nodes[n].id = RelativeToRoot(files[k])
             /\ written[1].nodes[n].nodeType = "file"

\* C2: no two nodes of the graph (file nodes or state nodes) have the same
\* id, also when one file has several state bindings with the same first name.
C2_UniqueNodeIds ==
  \A k, l \in Indices(graph.nodes) :
    k # l => graph.nodes[k].id # graph.nodes[l].id

\* C3: the source and the target of every 'imports' edge and of every 'state'
\* edge are ids of nodes of the graph.
C3_NoDanglingEdges ==
  \A n \in Indices(graph.edges) :
    graph.edges[n].type \in {"imports", "state"} =>
      /\ graph.edges[n].target \in IdSet(graph)
      /\ graph.edges[n].source \in IdSet(graph)

\* A finished run with an 'imports' edge, a 'state' edge and an import target
\* that resolved to a file outside the analysed set and was dropped
C3_Witness ==
  /\ pc = "done"
  /\ EdgesOfType(graph, "imports") # {}
  /\ EdgesOfType(graph, "state") # {}
  /\ \E id \in DOMAIN fileMap : \E k \in Indices(fileMap[id].imports) :
       fileMap[id].imports[k] \notin DOMAIN fileMap

\* C4: in the final graph, a file F with k import statements whose specifier
\* resolves to an analysed in-project file has exactly k 'imports' edges with
\* source F, repeated imports of one target counted separately, and every one
\* of these edges goes to such a resolved target.
C4_ImportEdgeCount ==
  pc = "done" =>
    \A a \in Indices(files) :
      LET F == files[a]
          out == {n \in EdgesOfType(written[1], "imports") :
                    written[1].edges[n].source = RelativeToRoot(F)}
          resolving == UNION {ImportsOf(F, files[b]) : b \in Indices(files)}
      IN /\ Cardinality(out) = Cardinality(resolving)
         /\ \A n \in out : \E b \in Indices(files) :
              /\ written[1].edges[n].target = RelativeToRoot(files[b])
              /\ ImportsOf(F, files[b]) # {}

\* A finished run in which one file imports the same analysed file twice and
\* has two 'imports' edges to it, and has an import that resolves to no
\* analysed file
C4_Witness ==
  /\ pc = "done"
  /\ \E a, b \in Indices(files) :
       /\ Cardinality(ImportsOf(files[a], files[b])) = 2
       /\ Cardinality({n \in EdgesOfType(written[1], "imports") :
                         /\ written[1].edges[n].source = RelativeToRoot(files[a])
                         /\ written[1].edges[n].target = RelativeToRoot(files[b])}) = 2
  /\ \E a \in Indices(files) : \E n \in Indices(code[files[a]].body) :
       /\ code[files[a]].body[n].type = "ImportDeclaration"
       /\ \A b \in Indices(files) : n \notin ImportsOf(files[a], files[b])

\* C5: in the final graph, a file F with m recognised state bindings has
\* exactly m 'state' edges with source F and exactly m state nodes with parent
\* F; the k-th of them has id F::state::name and label name for the k-th
\* recognised name, and the k-th edge leads to that id.
C5_StateNodesAndEdges ==
  pc = "done" =>
    \A id \in DOMAIN fileMap :
      LET g == written[1]
          names == fileMap[id].stateVariables
          sn == {n \in Indices(g.nodes) :
                   g.nodes[n].nodeType = "state" /\ g.nodes[n].parent = id}
          se == {n \in EdgesOfType(g, "state") : g.edges[n].source = id}
      IN /\ Cardinality(sn) = Len(names)
         /\ Cardinality(se) = Len(names)
         /\ \A n \in sn : g.nodes[n].id = id \o "::state::" \o g.nodes[n].label
         /\ \A k \in Indices(names) :
              /\ \E n \in sn :
                   /\ g.nodes[n].label = names[k]
                   /\ Cardinality({n2 \in sn : n2 < n}) = k - 1
              /\ \E n \in se :
                   /\ g.edges[n].target = id \o "::state::" \o names[k]
                   /\ Cardinality({n2 \in se : n2 < n}) = k - 1

\* A finished run with a file that has two state bindings of the same name
\* and a file that has two of different names
C5_Witness ==
  /\ pc = "done"
  /\ \E id \in DOMAIN fileMap :
       fileMap[id].stateVariables = <<"count", "count">>
  /\ \E id \in DOMAIN fileMap :
       fileMap[id].stateVariables = <<"count", "open">>

\* C10: no 'imports' edge exists before every discovered file is classified
\* and in the node set; in the final graph an import from F that resolves to
\* an analysed file G has an edge F -> G whatever the order in which F and G
\* were processed, and no 'imports' edge leads to anything but an analysed
\* file.
C10_ImportsAgainstCompletedNodeSet ==
  /\ EdgesOfType(graph, "imports") # {} =>
       /\ pc \in {"pass2", "done"}
       /\ i > Len(files)
       /\ FileIds \subseteq IdSet(graph)
  /\ pc = "done" =>
       /\ \A a, b \in Indices(files) :
            ImportsOf(files[a], files[b]) # {} =>
              \E n \in EdgesOfType(written[1], "imports") :
                /\ written[1].edges[n].source = RelativeToRoot(files[a])
                /\ written[1].edges[n].target = RelativeToRoot(files[b])
       /\ \A n \in EdgesOfType(written[1], "imports") :
            written[1].edges[n].target \in FileIds

\* A finished run over two files that import each other, so that one edge
\* leads to a file processed later and one to a file processed earlier, with
\* an import that resolves outside the analysed set
C10_Witness ==
  /\ pc = "done"
  /\ Len(files) = 2
  /\ ImportsOf(files[1], files[2]) # {}
  /\ ImportsOf(files[2], files[1]) # {}
  /\ \E n \in EdgesOfType(written[1], "imports") :
       /\ written[1].edges[n].source = RelativeToRoot(files[1])
       /\ written[1].edges[n].target = RelativeToRoot(files[2])
  /\ \E id \in DOMAIN fileMap : \E k \in Indices(fileMap[id].imports) :
       fileMap[id].imports[k] \notin DOMAIN fileMap

(***************************************************************************)
(* Properties of resolveImportPath (specification SpecResolve)             *)
(***************************************************************************)
\* The eight candidates of a base path, in the documented order
C6_Candidates(base) ==
  <<WithExt(base, ".js"), WithExt(base, ".jsx"), WithExt(base, ".ts"), WithExt(base, ".tsx"),
    Append(base, "index.js"), Append(base, "index.jsx"),
    Append(base, "index.ts"), Append(base, "index.tsx")>>

C6_Base(fromFile, importPath) ==
  PathResolve(IF StartsWithDot(importPath) THEN Dirname(fromFile) ELSE projectRoot,
              importPath)

\* C6: resolve returns the first existing candidate among <base>.js, .jsx,
\* .ts, .tsx, <base>/index.js, .jsx, .ts, .tsx in that order, base taken from
\* the importing file's directory when the specifier starts with "." and from
\* the project root otherwise, and returns unresolved exactly when none of
\* the eight exists.
C6_ResolutionPriority ==
  call.done =>
    LET cands == C6_Candidates(C6_Base(call.fromFile, call.importPath))
        existing == {k \in 1..8 : existsSync(cands[k])}
    IN /\ call.result = NoPath <=> existing = {}
       /\ existing # {} =>
            \E k \in existing :
              /\ call.result = cands[k]
              /\ \A l \in existing : k <= l

\* A relative specifier resolved from a subdirectory to <base>.ts, the first
\* existing candidate, while <base>.js is missing and an index candidate of
\* the same base exists
C6_Witness ==
  /\ call.done
  /\ StartsWithDot(call.importPath)
  /\ Dirname(call.fromFile) # projectRoot
  /\ call.result = <<"proj", "b.ts">>
  /\ ~existsSync(<<"proj", "b.js">>)
  /\ existsSync(<<"proj", "b", "index.js">>)

(***************************************************************************)
(* Properties of parseFile (specification SpecClassify)                    *)
(***************************************************************************)
Classifying == pc \in {"traverse", "returned"}

\* The nodes visited so far
Visited == SubSeq(PreOrder(code[cur].body), 1, pos - 1)

RECURSIVE Distinct(_)
Distinct(seq) ==
  IF seq = <<>> THEN <<>>
  ELSE LET d == Distinct(Front(seq)) IN
       IF Includes(d, Last(seq)) THEN d ELSE Append(d, Last(seq))

\* Left side is a positional-destructuring pattern of at least n elements
\* whose first element is a plain identifier; right side is a call of the
\* plain identifier useState
C8_Binding(node, n) ==
  /\ node.type = "VariableDeclarator"
  /\ node.id.type = "ArrayPattern"
  /\ Len(node.id.elements) >= n
  /\ node.id.elements[1].type = "Identifier"
  /\ node.init.type = "CallExpression"
  /\ node.init.callee.type = "Identifier"
  /\ node.init.callee.name = "useState"

RECURSIVE C8_Names(_, _)
C8_Names(nodes, n) ==
  IF nodes = <<>> THEN <<>>
  ELSE IF C8_Binding(Head(nodes), n)
       THEN <<Head(nodes).id.elements[1].name>> \o C8_Names(Tail(nodes), n)
       ELSE C8_Names(Tail(nodes), n)

\* The hook names observed at a node: the callee of a hook-shaped call, and
\* useState at a state binding
C7_Observed(node) ==
  IF node.type = "CallExpression" /\ node.callee.type = "Identifier"
     /\ StartsWithUse(node.callee.name)
  THEN <<node.callee.name>>
  ELSE IF C8_Binding(node, 1) THEN <<"useState">>
  ELSE <<>>

RECURSIVE C7_AllObserved(_)
C7_AllObserved(nodes) ==
  IF nodes = <<>> THEN <<>>
  ELSE C7_Observed(Head(nodes)) \o C7_AllObserved(Tail(nodes))

\* C7: the hook-name list holds each observed hook name exactly once, in
\* order of first observation.
C7_HookNamesNoDuplicates ==
  Classifying => metadata.usesHooks = Distinct(C7_AllObserved(Visited))

\* C8 as stated: a binding adds its first destructured identifier to
\* stateVariables if and only if its pattern has two or more elements, the
\* first a plain identifier, and its initializer is a call of useState.
C8_TwoOrMoreElements ==
  Classifying => metadata.stateVariables = C8_Names(Visited, 2)

\* C8 amended: a binding adds its first destructured identifier to
\* stateVariables if and only if its pattern has one or more elements, the
\* first a plain identifier, and its initializer is a call of useState.
C8_OneOrMoreElements ==
  Classifying => metadata.stateVariables = C8_Names(Visited, 1)

\* A finished classification that visited a one-element state binding, a
\* binding with a non-identifier first element and a recorded name
C8_Witness ==
  /\ pc = "returned"
  /\ \E k \in Indices(Visited) :
       C8_Binding(Visited[k], 1) /\ Len(Visited[k].id.elements) = 1
  /\ \E k \in Indices(Visited) :
       /\ Visited[k].type = "VariableDeclarator"
       /\ Visited[k].id.type = "ArrayPattern"
       /\ ~C8_Binding(Visited[k], 1)
  /\ metadata.stateVariables = <<"count">>

\* The component name a node declares, if any
C9_Component(node) ==
  IF /\ node.type = "FunctionDeclaration"
     /\ node.id.type = "Identifier"
     /\ StartsUpper(node.id.name)
  THEN <<node.id.name>>
  ELSE IF /\ node.type = "VariableDeclarator"
          /\ node.id.type = "Identifier"
          /\ node.init.type \in {"ArrowFunctionExpression", "FunctionExpression"}
          /\ StartsUpper(node.id.name)
  THEN <<node.id.name>>
  ELSE <<>>

RECURSIVE C9_Components(_)
C9_Components(nodes) ==
  IF nodes = <<>> THEN <<>>
  ELSE C9_Component(Head(nodes)) \o C9_Components(Tail(nodes))

\* C9: components holds exactly the uppercase-initial identifiers of named
\* function declarations and of variable bindings initialized to a function
\* expression, arrow form or function-keyword form.
C9_ComponentRecognition ==
  Classifying => metadata.components = C9_Components(Visited)

====
